---------------------------- MODULE Spec2Model ----------------------------
(***************************************************************************)
(* Model of dng_safe_arithmetic (src/source/dng_safe_arithmetic.{h,cpp}):  *)
(* overflow-checked integer arithmetic on int32_t, uint32_t, int64_t and   *)
(* size_t.                                                                 *)
(*                                                                         *)
(* The C++ operands are 32 and 64 bit wide and their exact sums and        *)
(* products need up to 128 bits, more than a TLC integer holds.  Every     *)
(* number of the program is therefore an exact integer in sign-magnitude   *)
(* form,                                                                   *)
(*      [neg |-> BOOLEAN, mag |-> <<d1, d2, ..., dn>>]                     *)
(* with value (-1)^neg * (d1 + d2*Radix + d3*Radix^2 + ...), the digits    *)
(* least significant first, dn # 0, and zero written [FALSE, <<>>].        *)
(* With Radix = 1000 the digits are groups of three decimal digits:        *)
(* 4294967295 is <<295, 967, 294, 4>>.                                     *)
(***************************************************************************)
EXTENDS Integers, Sequences, FiniteSets

\* The radix of the digit sequences (a choice of representation only).
Radix == 10 * 100

(***************************************************************************)
(* Magnitudes: natural numbers as digit sequences.                         *)
(***************************************************************************)
RECURSIVE MagOfNat(_)
MagOfNat(n) ==
    IF n = 0 THEN <<>> ELSE <<n % Radix>> \o MagOfNat(n \div Radix)

RECURSIVE MagTrim(_)
MagTrim(m) ==
    IF m = <<>> THEN m
    ELSE IF m[Len(m)] = 0 THEN MagTrim(SubSeq(m, 1, Len(m) - 1))
    ELSE m

RestOf(m) == IF m = <<>> THEN <<>> ELSE Tail(m)

LowOf(m) == IF m = <<>> THEN 0 ELSE Head(m)

\* -1, 0 or 1 as a < b, a = b or a > b, comparing digits i, i-1, ..., 1.
RECURSIVE MagCmpFrom(_, _, _)
MagCmpFrom(a, b, i) ==
    IF i = 0 THEN 0
    ELSE IF a[i] < b[i] THEN -1
    ELSE IF a[i] > b[i] THEN 1
    ELSE MagCmpFrom(a, b, i - 1)

MagCmp(a, b) ==
    IF Len(a) < Len(b) THEN -1
    ELSE IF Len(a) > Len(b) THEN 1
    ELSE MagCmpFrom(a, b, Len(a))

\* a + b + c for a carry c in {0, 1}.
RECURSIVE MagAddC(_, _, _)
MagAddC(a, b, c) ==
    IF a = <<>> /\ b = <<>>
    THEN (IF c = 0 THEN <<>> ELSE <<c>>)
    ELSE <<(LowOf(a) + LowOf(b) + c) % Radix>>
            \o MagAddC(RestOf(a), RestOf(b), (LowOf(a) + LowOf(b) + c) \div Radix)

MagAdd(a, b) == MagAddC(a, b, 0)

\* a - b - c for a >= b + c and a borrow c in {0, 1} (untrimmed).
RECURSIVE MagSubB(_, _, _)
MagSubB(a, b, c) ==
    IF a = <<>> THEN <<>>
    ELSE IF Head(a) - LowOf(b) - c < 0
         THEN <<Head(a) - LowOf(b) - c + Radix>> \o MagSubB(Tail(a), RestOf(b), 1)
         ELSE <<Head(a) - LowOf(b) - c>> \o MagSubB(Tail(a), RestOf(b), 0)

MagSub(a, b) == MagTrim(MagSubB(a, b, 0))

\* a * d + c for a digit d and a carry c < Radix (untrimmed).
RECURSIVE MagMulDigitC(_, _, _)
MagMulDigitC(a, d, c) ==
    IF a = <<>>
    THEN (IF c = 0 THEN <<>> ELSE <<c>>)
    ELSE <<(Head(a) * d + c) % Radix>>
            \o MagMulDigitC(Tail(a), d, (Head(a) * d + c) \div Radix)

MagMulDigit(a, d) == MagTrim(MagMulDigitC(a, d, 0))

MagShift(a) == IF a = <<>> THEN <<>> ELSE <<0>> \o a

RECURSIVE MagMul(_, _)
MagMul(a, b) ==
    IF a = <<>> THEN <<>>
    ELSE MagAdd(MagMulDigit(b, Head(a)), MagShift(MagMul(Tail(a), b)))

Digit(m, i) == IF 1 <= i /\ i <= Len(m) THEN m[i] ELSE 0

\* The digits k+1 and k+2 of m, and the digits k+1 .. k+3, as numbers.
Top2(m, k) == Digit(m, k + 1) + Radix * Digit(m, k + 2)

Top3(m, k) == Top2(m, k) + Radix * Radix * Digit(m, k + 3)

Min(x, y) == IF x < y THEN x ELSE y

\* The digit d in lo..hi with d * b <= cur < (d + 1) * b.
MagQuotDigitIn(cur, b, lo, hi) ==
    CHOOSE d \in lo..hi :
        /\ MagCmp(MagMulDigit(b, d), cur) <= 0
        /\ d = hi \/ MagCmp(MagMulDigit(b, d + 1), cur) > 0

\* The digit d with d * b <= cur < (d + 1) * b, for b # 0 and cur < b * Radix.
\* With tb the two leading digits of b and tc the digits of cur above the
\* same position, d lies in tc \div (tb + 1) .. (tc + 1) \div tb, an interval
\* of at most three digits.
MagQuotDigit(cur, b) ==
    IF Len(b) = 1 THEN Top3(cur, 0) \div b[1]
    ELSE MagQuotDigitIn(cur, b,
            Top3(cur, Len(b) - 2) \div (Top2(b, Len(b) - 2) + 1),
            Min((Top3(cur, Len(b) - 2) + 1) \div Top2(b, Len(b) - 2), Radix - 1))

\* One step of the long division: up is the quotient and remainder of the
\* digits above, cur the remainder with the next digit brought down.
MagDivStep(b, up, cur, d) ==
    [q |-> MagTrim(<<d>> \o up.q), r |-> MagSub(cur, MagMulDigit(b, d))]

MagDivCur(b, up, cur) == MagDivStep(b, up, cur, MagQuotDigit(cur, b))

MagDivDigit(x, b, up) == MagDivCur(b, up, MagTrim(<<x>> \o up.r))

\* Long division of the digits i..Len(a) of a by b # 0: quotient and remainder.
RECURSIVE MagDivModFrom(_, _, _)
MagDivModFrom(a, b, i) ==
    IF i > Len(a) THEN [q |-> <<>>, r |-> <<>>]
    ELSE MagDivDigit(a[i], b, MagDivModFrom(a, b, i + 1))

MagDivMod(a, b) == MagDivModFrom(a, b, 1)

(***************************************************************************)
(* Exact integers.                                                         *)
(***************************************************************************)
MkZ(neg, mag) == [neg |-> neg /\ mag # <<>>, mag |-> mag]

Z(n) == IF n < 0 THEN MkZ(TRUE, MagOfNat(-n)) ELSE MkZ(FALSE, MagOfNat(n))

Zero == Z(0)

One == Z(1)

ZNeg(a) == MkZ(~a.neg, a.mag)

ZAdd(a, b) ==
    IF a.neg = b.neg THEN MkZ(a.neg, MagAdd(a.mag, b.mag))
    ELSE IF MagCmp(a.mag, b.mag) >= 0
         THEN MkZ(a.neg, MagSub(a.mag, b.mag))
         ELSE MkZ(b.neg, MagSub(b.mag, a.mag))

ZSub(a, b) == ZAdd(a, ZNeg(b))

ZMul(a, b) == MkZ(a.neg # b.neg, MagMul(a.mag, b.mag))

ZLe(a, b) ==
    IF a.neg # b.neg THEN a.neg
    ELSE IF a.neg THEN MagCmp(a.mag, b.mag) >= 0
    ELSE MagCmp(a.mag, b.mag) <= 0

ZLt(a, b) == ~ZLe(b, a)

\* Quotient rounded toward zero and the remainder with the dividend's sign, as
\* the C++ operators / and % give them (b # 0).
ZDivT(a, b) == MkZ(a.neg # b.neg, MagDivMod(a.mag, b.mag).q)

ZRemT(a, b) == MkZ(a.neg, MagDivMod(a.mag, b.mag).r)

\* The residue of a in 0 .. m-1 (m > 0).
ZModOf(r, m) == IF r.neg THEN ZAdd(r, m) ELSE r

ZMod(a, m) == ZModOf(ZRemT(a, m), m)

\* 2^n, by squaring.
ZSquare(a) == ZMul(a, a)

RECURSIVE ZPow2(_)
ZPow2(n) ==
    IF n < 16 THEN Z(2 ^ n)
    ELSE IF n % 2 = 0 THEN ZSquare(ZPow2(n \div 2))
    ELSE ZMul(Z(2), ZSquare(ZPow2(n \div 2)))

\* 2^n for the widths in use, computed once.
TwoTo == [n \in 0..64 |-> ZPow2(n)]

(***************************************************************************)
(* The C++ integer types and their operators.                              *)
(***************************************************************************)
I32 == [signed |-> TRUE, bits |-> 32]

U32 == [signed |-> FALSE, bits |-> 32]

I64 == [signed |-> TRUE, bits |-> 64]

U64 == [signed |-> FALSE, bits |-> 64]

U16 == [signed |-> FALSE, bits |-> 16]

U8 == [signed |-> FALSE, bits |-> 8]

\* std::size_t of the LP64 builds the library is compiled for.
SizeT == U64

\* std::numeric_limits<T>::min() and ::max() (INT64_MIN and INT64_MAX for I64).
TMin(T) == IF T.signed THEN ZNeg(TwoTo[T.bits - 1]) ELSE Zero

TMax(T) ==
    IF T.signed THEN ZSub(TwoTo[T.bits - 1], One) ELSE ZSub(TwoTo[T.bits], One)

InRange(T, z) == ZLe(TMin(T), z) /\ ZLe(z, TMax(T))

\* The value of type T congruent to z modulo 2^bits: static_cast<T>(z), and
\* what unsigned arithmetic yields for the exact result z.
WrapResidue(T, r) ==
    IF T.signed /\ ZLt(TMax(T), r) THEN ZSub(r, TwoTo[T.bits]) ELSE r

Wrap(T, z) ==
    IF InRange(T, z) THEN z ELSE WrapResidue(T, ZMod(z, TwoTo[T.bits]))

\* One evaluation of a binary arithmetic operator on operands of type T.
Ev(T, op, x, y) == [t |-> T, op |-> op, x |-> x, y |-> y]

DivOps == {"/", "%"}

ZeroDivisor(e) == e.op \in DivOps /\ e.y = Zero

\* The exact mathematical value of the sub-expression (its divisor is not 0).
Exact(e) ==
    CASE e.op = "+" -> ZAdd(e.x, e.y)
      [] e.op = "-" -> ZSub(e.x, e.y)
      [] e.op = "*" -> ZMul(e.x, e.y)
      [] e.op = "/" -> ZDivT(e.x, e.y)
      [] e.op = "%" -> ZRemT(e.x, e.y)

\* The evaluation has undefined behaviour: a zero divisor, or a signed result
\* outside the type (INT64_MIN / -1 among them).
Undefined(e) ==
    \/ ZeroDivisor(e)
    \/ e.t.signed /\ ~InRange(e.t, Exact(e))
    \/ e.t.signed /\ e.op = "%" /\ ~InRange(e.t, ZDivT(e.x, e.y))

\* The value the evaluation yields: exact, or wrapped for an unsigned type.
\* Where the evaluation is undefined the call's outcome is "undefined" (see
\* Settle) and this value is not used.
CVal(e) == IF ZeroDivisor(e) THEN Zero ELSE Wrap(e.t, Exact(e))

(***************************************************************************)
(* Outcomes.  A result form ends "returned" with val, or "raised"; a       *)
(* status form ends "true" or "false" with the output slot's content in    *)
(* result.  evals is the set of arithmetic sub-expressions evaluated.      *)
(***************************************************************************)
Returned(v, evals) ==
    [outcome |-> "returned", val |-> v, result |-> Zero, evals |-> evals]

\* ThrowProgramError(...): a dng_exception leaves the function.
Raised(evals) ==
    [outcome |-> "raised", val |-> Zero, result |-> Zero, evals |-> evals]

Stored(ok, slot, evals) ==
    [outcome |-> IF ok THEN "true" ELSE "false", val |-> Zero,
     result |-> slot, evals |-> evals]

\* TryStore with the dummy value of the failed call stored in *result.
TryStoreDummy(r, result) ==
    IF r.outcome = "returned" THEN Stored(TRUE, r.val, r.evals)
    ELSE Stored(FALSE, Zero, r.evals)

\* try { *result = <call>; return true; } catch (const dng_exception &) { return false; }
TryStore(r, result) ==
    IF r.outcome = "returned" THEN Stored(TRUE, r.val, r.evals)
    ELSE Stored(FALSE, result, r.evals)

\* A call that evaluated an undefined sub-expression may do anything.
Settle(r) ==
    IF \E e \in r.evals : Undefined(e)
    THEN [r EXCEPT !.outcome = "undefined"]
    ELSE r

(***************************************************************************)
(* The functions of dng_safe_arithmetic.cpp.                               *)
(***************************************************************************)
\* if (fits) return <e>; else ThrowProgramError(...): guards are the
\* sub-expressions the condition evaluated.
ReturnIf(fits, guards, e) ==
    IF fits THEN Returned(CVal(e), guards \cup {e}) ELSE Raised(guards)

\* The status form of the same: *result = <e>; return true; or return false.
StoreIf(fits, guards, e, result) ==
    IF fits THEN Stored(TRUE, CVal(e), guards \cup {e})
    ELSE Stored(FALSE, result, guards)

\* The call ended as r after the caller had itself evaluated evs.
WithEvals(evs, r) == [r EXCEPT !.evals = evs \cup @]

\* SafeAdd without the case arg1 < 0 of the condition.
SafeAddNonNegativeOnly(T, arg1, arg2) ==
    IF ZLe(Zero, arg1)
    THEN ReturnIf(ZLe(arg2, CVal(Ev(T, "-", TMax(T), arg1))),
                  {Ev(T, "-", TMax(T), arg1)}, Ev(T, "+", arg1, arg2))
    ELSE Raised({})

\* arg1 >= 0 && arg2 <= max - arg1, or arg1 < 0 && arg2 >= min - arg1: the
\* operators && and || evaluate only the difference on the side of arg1's sign.
SafeAdd(T, arg1, arg2) ==
    IF ZLe(Zero, arg1)
    THEN ReturnIf(ZLe(arg2, CVal(Ev(T, "-", TMax(T), arg1))),
                  {Ev(T, "-", TMax(T), arg1)}, Ev(T, "+", arg1, arg2))
    ELSE ReturnIf(ZLe(CVal(Ev(T, "-", TMin(T), arg1)), arg2),
                  {Ev(T, "-", TMin(T), arg1)}, Ev(T, "+", arg1, arg2))

\* SafeUnsignedMult with arg2 < max / arg1 for arg2 <= max / arg1.
SafeUnsignedMultStrict(T, arg1, arg2) ==
    IF arg1 = Zero
    THEN ReturnIf(TRUE, {}, Ev(T, "*", arg1, arg2))
    ELSE ReturnIf(ZLt(arg2, CVal(Ev(T, "/", TMax(T), arg1))),
                  {Ev(T, "/", TMax(T), arg1)}, Ev(T, "*", arg1, arg2))

SafeUnsignedMult(T, arg1, arg2) ==
    IF arg1 = Zero
    THEN ReturnIf(TRUE, {}, Ev(T, "*", arg1, arg2))
    ELSE ReturnIf(ZLe(arg2, CVal(Ev(T, "/", TMax(T), arg1))),
                  {Ev(T, "/", TMax(T), arg1)}, Ev(T, "*", arg1, arg2))

SafeInt32Add(arg1, arg2) == SafeAdd(I32, arg1, arg2)

SafeInt32AddStatus(arg1, arg2, result) ==
    TryStore(SafeInt32Add(arg1, arg2), result)

SafeInt64Add(arg1, arg2) == SafeAdd(I64, arg1, arg2)

SafeUint32Add(arg1, arg2) == SafeAdd(U32, arg1, arg2)

SafeUint32AddStatus(arg1, arg2, result) ==
    TryStore(SafeUint32Add(arg1, arg2), result)

SafeInt32SubStatus(arg1, arg2, result) ==
    IF ZLe(Zero, arg2)
    THEN StoreIf(ZLe(CVal(Ev(I32, "+", TMin(I32), arg2)), arg1),
                 {Ev(I32, "+", TMin(I32), arg2)}, Ev(I32, "-", arg1, arg2), result)
    ELSE StoreIf(ZLe(arg1, CVal(Ev(I32, "+", TMax(I32), arg2))),
                 {Ev(I32, "+", TMax(I32), arg2)}, Ev(I32, "-", arg1, arg2), result)

\* if (!SafeInt32Sub(arg1, arg2, &result)) ThrowProgramError(...); return result;
ThrowIfFalse(s) ==
    IF s.outcome = "false" THEN Raised(s.evals) ELSE Returned(s.result, s.evals)

SafeInt32Sub(arg1, arg2) == ThrowIfFalse(SafeInt32SubStatus(arg1, arg2, Zero))

\* SafeUint32Mult returning arg1 * arg2 unchecked.
SafeUint32Mult2Unchecked(arg1, arg2) ==
    ReturnIf(TRUE, {}, Ev(U32, "*", arg1, arg2))

SafeUint32Mult2(arg1, arg2) == SafeUnsignedMult(U32, arg1, arg2)

\* SafeUint32Mult(<inner call>, arg): an inner call that raises ends the outer
\* call; otherwise its value is the outer call's first operand.
ThenMult(inner, arg) ==
    IF inner.outcome = "raised" THEN inner
    ELSE WithEvals(inner.evals, SafeUint32Mult2(inner.val, arg))

SafeUint32Mult3(arg1, arg2, arg3) == ThenMult(SafeUint32Mult2(arg1, arg2), arg3)

SafeUint32Mult4(arg1, arg2, arg3, arg4) ==
    ThenMult(SafeUint32Mult3(arg1, arg2, arg3), arg4)

\* A caller's SafeUint32Mult(SafeUint32Mult(arg1, arg2), arg3) and
\* SafeUint32Mult(arg1, SafeUint32Mult(arg2, arg3)): the argument is evaluated
\* first, and if it raises the outer call is not made.
MultThen(arg, inner) ==
    IF inner.outcome = "raised" THEN inner
    ELSE WithEvals(inner.evals, SafeUint32Mult2(arg, inner.val))

MultiplyLeft(arg1, arg2, arg3) == ThenMult(SafeUint32Mult2(arg1, arg2), arg3)

MultiplyRight(arg1, arg2, arg3) == MultThen(arg1, SafeUint32Mult2(arg2, arg3))

SafeUint32Mult2Status(arg1, arg2, result) ==
    TryStore(SafeUint32Mult2(arg1, arg2), result)

SafeUint32Mult3Status(arg1, arg2, arg3, result) ==
    TryStore(SafeUint32Mult3(arg1, arg2, arg3), result)

SafeUint32Mult4Status(arg1, arg2, arg3, arg4, result) ==
    TryStore(SafeUint32Mult4(arg1, arg2, arg3, arg4), result)

SafeSizetMult(arg1, arg2) == SafeUnsignedMult(SizeT, arg1, arg2)

\* SafeInt64Mult with INT64_MAX / arg1 for INT64_MIN / arg1 where arg1 > 0
\* and arg2 <= 0.
SafeInt64MultMaxForMin(arg1, arg2) ==
    IF ZLt(Zero, arg1)
    THEN IF ZLt(Zero, arg2)
         THEN ReturnIf(~ZLt(CVal(Ev(I64, "/", TMax(I64), arg2)), arg1),
                       {Ev(I64, "/", TMax(I64), arg2)}, Ev(I64, "*", arg1, arg2))
         ELSE ReturnIf(~ZLt(arg2, CVal(Ev(I64, "/", TMax(I64), arg1))),
                       {Ev(I64, "/", TMax(I64), arg1)}, Ev(I64, "*", arg1, arg2))
    ELSE IF ZLt(Zero, arg2)
         THEN ReturnIf(~ZLt(arg1, CVal(Ev(I64, "/", TMin(I64), arg2))),
                       {Ev(I64, "/", TMin(I64), arg2)}, Ev(I64, "*", arg1, arg2))
         ELSE IF arg1 = Zero
              THEN ReturnIf(TRUE, {}, Ev(I64, "*", arg1, arg2))
              ELSE ReturnIf(~ZLt(arg2, CVal(Ev(I64, "/", TMax(I64), arg1))),
                            {Ev(I64, "/", TMax(I64), arg1)}, Ev(I64, "*", arg1, arg2))

\* SafeInt64Mult with the test of arg1 > 0, arg2 <= 0 written as that of
\* arg1 <= 0, arg2 > 0: arg1 < INT64_MIN / arg2.
SafeInt64MultByArg2(arg1, arg2) ==
    IF ZLt(Zero, arg1)
    THEN IF ZLt(Zero, arg2)
         THEN ReturnIf(~ZLt(CVal(Ev(I64, "/", TMax(I64), arg2)), arg1),
                       {Ev(I64, "/", TMax(I64), arg2)}, Ev(I64, "*", arg1, arg2))
         ELSE ReturnIf(~ZLt(arg1, CVal(Ev(I64, "/", TMin(I64), arg2))),
                       {Ev(I64, "/", TMin(I64), arg2)}, Ev(I64, "*", arg1, arg2))
    ELSE IF ZLt(Zero, arg2)
         THEN ReturnIf(~ZLt(arg1, CVal(Ev(I64, "/", TMin(I64), arg2))),
                       {Ev(I64, "/", TMin(I64), arg2)}, Ev(I64, "*", arg1, arg2))
         ELSE IF arg1 = Zero
              THEN ReturnIf(TRUE, {}, Ev(I64, "*", arg1, arg2))
              ELSE ReturnIf(~ZLt(arg2, CVal(Ev(I64, "/", TMax(I64), arg1))),
                            {Ev(I64, "/", TMax(I64), arg1)}, Ev(I64, "*", arg1, arg2))

SafeInt64Mult(arg1, arg2) ==
    IF ZLt(Zero, arg1)
    THEN IF ZLt(Zero, arg2)
         THEN ReturnIf(~ZLt(CVal(Ev(I64, "/", TMax(I64), arg2)), arg1),
                       {Ev(I64, "/", TMax(I64), arg2)}, Ev(I64, "*", arg1, arg2))
         ELSE ReturnIf(~ZLt(arg2, CVal(Ev(I64, "/", TMin(I64), arg1))),
                       {Ev(I64, "/", TMin(I64), arg1)}, Ev(I64, "*", arg1, arg2))
    ELSE IF ZLt(Zero, arg2)
         THEN ReturnIf(~ZLt(arg1, CVal(Ev(I64, "/", TMin(I64), arg2))),
                       {Ev(I64, "/", TMin(I64), arg2)}, Ev(I64, "*", arg1, arg2))
         ELSE IF arg1 = Zero
              THEN ReturnIf(TRUE, {}, Ev(I64, "*", arg1, arg2))
              ELSE ReturnIf(~ZLt(arg2, CVal(Ev(I64, "/", TMax(I64), arg1))),
                            {Ev(I64, "/", TMax(I64), arg1)}, Ev(I64, "*", arg1, arg2))

\* (arg1 - 1) / arg2 + 1, one operator at a time.
DivideUpSum(e1, e2) ==
    ReturnIf(TRUE, {e1, e2}, Ev(U32, "+", CVal(e2), One))

DivideUpQuotient(e1, arg2) == DivideUpSum(e1, Ev(U32, "/", CVal(e1), arg2))

\* SafeUint32DivideUp as (arg1 + arg2 - 1) / arg2.
DivideUpNaiveQuotient(e1, e2, arg2) ==
    ReturnIf(TRUE, {e1, e2}, Ev(U32, "/", CVal(e2), arg2))

DivideUpNaiveSum(e1, arg2) ==
    DivideUpNaiveQuotient(e1, Ev(U32, "-", CVal(e1), One), arg2)

SafeUint32DivideUpNaive(arg1, arg2) ==
    IF arg2 = Zero THEN Raised({})
    ELSE DivideUpNaiveSum(Ev(U32, "+", arg1, arg2), arg2)

SafeUint32DivideUp(arg1, arg2) ==
    IF arg2 = Zero THEN Raised({})
    ELSE IF arg1 = Zero THEN Returned(Zero, {})
    ELSE DivideUpQuotient(Ev(U32, "-", arg1, One), arg2)

\* RoundUpAdd as *result = val + (multiple_of - remainder); return true;
RoundUpAddUnchecked(val, result, e1, e2) ==
    StoreIf(TRUE, {e1, e2}, Ev(U32, "+", val, CVal(e2)), result)

\* return SafeUint32Add(val, multiple_of - remainder, result);
RoundUpAdd(val, result, e1, e2) ==
    WithEvals({e1, e2}, SafeUint32AddStatus(val, CVal(e2), result))

\* The function past remainder = val % multiple_of, the evaluation e1.
RoundUpRemainder(val, multiple_of, result, e1) ==
    IF CVal(e1) = Zero THEN Stored(TRUE, val, {e1})
    ELSE RoundUpAdd(val, result, e1, Ev(U32, "-", multiple_of, CVal(e1)))

RoundUpUint32ToMultiple(val, multiple_of, result) ==
    IF multiple_of = Zero THEN Stored(FALSE, result, {})
    ELSE RoundUpRemainder(val, multiple_of, result, Ev(U32, "%", val, multiple_of))

kInt32MaxAsUint32 == Wrap(U32, TMax(I32))

ConvertUint32ToInt32(val, result) ==
    IF ZLe(val, kInt32MaxAsUint32)
    THEN Stored(TRUE, Wrap(I32, val), {})
    ELSE Stored(FALSE, result, {})

\* ConvertUnsigned with *dest = converted ahead of the check.
ConvertUnsignedStoreFirst(TSrc, src, dest, converted) ==
    IF Wrap(TSrc, converted) # src
    THEN [Raised({}) EXCEPT !.result = converted]
    ELSE [Returned(Zero, {}) EXCEPT !.result = converted]

\* dng_safe_arithmetic.h: converted = static_cast<TDest>(src); the destination
\* is written only past the check of the cast back.
ConvertUnsignedChecked(TSrc, src, dest, converted) ==
    IF Wrap(TSrc, converted) # src
    THEN [Raised({}) EXCEPT !.result = dest]
    ELSE [Returned(Zero, {}) EXCEPT !.result = converted]

ConvertUnsigned(TSrc, TDest, src, dest) ==
    ConvertUnsignedChecked(TSrc, src, dest, Wrap(TDest, src))

(***************************************************************************)
(* The caller: from "idle" it makes one call, with operands drawn from the *)
(* values around the points where the checks change their answer, and      *)
(* returns to "idle".  Every call is independent of the calls before it.   *)
(***************************************************************************)
\* How far around each such point the operands are drawn.
Near == 1

Around(c) == {ZAdd(c, Z(d)) : d \in -Near..Near}

Clip(T, S) == {z \in S : InRange(T, z)}

Both(S) == S \cup {ZNeg(z) : z \in S}

\* The largest integer whose square is at most INT64_MAX: 3037000499.
SqrtInt64Max == ZAdd(ZMul(Z(30370), Z(100000)), Z(499))

I32Vals == Clip(I32, Around(TMin(I32)) \cup Around(Zero) \cup Around(TMax(I32)))

I64Vals == Clip(I64, Around(TMin(I64)) \cup Around(Zero) \cup Around(TMax(I64)))

I64MultVals ==
    I64Vals \cup Both(Around(TwoTo[31]) \cup Around(TwoTo[32])
                        \cup Around(TwoTo[62]) \cup Around(SqrtInt64Max))

U32Vals ==
    Clip(U32, Around(Zero) \cup Around(TwoTo[16]) \cup Around(TwoTo[31])
                \cup Around(TMax(U32)))

U32ChainVals ==
    Clip(U32, Around(Zero) \cup Around(TwoTo[16])) \cup {TMax(U32)}

SizeTVals ==
    Clip(SizeT, Around(Zero) \cup Around(TwoTo[32]) \cup Around(TwoTo[63])
                  \cup Around(TMax(SizeT)))

UnsignedTypes == {U8, U16, U32, U64}

UnsignedVals(T) ==
    Clip(T, Around(Zero) \cup Around(TwoTo[8]) \cup Around(TwoTo[16])
              \cup Around(TwoTo[32]) \cup Around(TwoTo[64]))

\* What the output slot may hold on entry.
SlotVals(T) == {Z(7), TMax(T)}

VARIABLES
    pc,        \* "idle", or "done" once the call has ended
    fn,        \* the function called
    targs,     \* its template arguments (ConvertUnsigned)
    args,      \* its operands
    result0,   \* the output slot on entry (status forms, ConvertUnsigned)
    result,    \* the output slot when the call has ended
    outcome,   \* "returned", "raised", "true", "false" or "undefined"
    val,       \* the value returned (result forms)
    evals      \* the arithmetic sub-expressions the call evaluated

vars == <<pc, fn, targs, args, result0, result, outcome, val, evals>>

Init ==
    /\ pc = "idle"
    /\ fn = "none"
    /\ targs = <<>>
    /\ args = <<>>
    /\ result0 = Zero
    /\ result = Zero
    /\ outcome = "none"
    /\ val = Zero
    /\ evals = {}

\* The call f<ta>(a) has ended as s; slot is the output slot on entry.
EndedAs(f, ta, a, slot, s) ==
    /\ pc' = "done"
    /\ fn' = f
    /\ targs' = ta
    /\ args' = a
    /\ result0' = slot
    /\ result' = s.result
    /\ outcome' = s.outcome
    /\ val' = s.val
    /\ evals' = s.evals

Ended(f, ta, a, slot, r) == EndedAs(f, ta, a, slot, Settle(r))

CallSafeInt32AddStatus ==
    /\ pc = "idle"
    /\ \E a \in I32Vals, b \in I32Vals, r \in SlotVals(I32) :
            Ended("SafeInt32AddStatus", <<>>, <<a, b>>, r, SafeInt32AddStatus(a, b, r))

CallSafeInt32Add ==
    /\ pc = "idle"
    /\ \E a \in I32Vals, b \in I32Vals :
            Ended("SafeInt32Add", <<>>, <<a, b>>, Zero, SafeInt32Add(a, b))

CallSafeInt64Add ==
    /\ pc = "idle"
    /\ \E a \in I64Vals, b \in I64Vals :
            Ended("SafeInt64Add", <<>>, <<a, b>>, Zero, SafeInt64Add(a, b))

CallSafeUint32AddStatus ==
    /\ pc = "idle"
    /\ \E a \in U32Vals, b \in U32Vals, r \in SlotVals(U32) :
            Ended("SafeUint32AddStatus", <<>>, <<a, b>>, r, SafeUint32AddStatus(a, b, r))

CallSafeUint32Add ==
    /\ pc = "idle"
    /\ \E a \in U32Vals, b \in U32Vals :
            Ended("SafeUint32Add", <<>>, <<a, b>>, Zero, SafeUint32Add(a, b))

CallSafeInt32SubStatus ==
    /\ pc = "idle"
    /\ \E a \in I32Vals, b \in I32Vals, r \in SlotVals(I32) :
            Ended("SafeInt32SubStatus", <<>>, <<a, b>>, r, SafeInt32SubStatus(a, b, r))

CallSafeInt32Sub ==
    /\ pc = "idle"
    /\ \E a \in I32Vals, b \in I32Vals :
            Ended("SafeInt32Sub", <<>>, <<a, b>>, Zero, SafeInt32Sub(a, b))

CallSafeUint32Mult2Status ==
    /\ pc = "idle"
    /\ \E a \in U32Vals, b \in U32Vals, r \in SlotVals(U32) :
            Ended("SafeUint32Mult2Status", <<>>, <<a, b>>, r,
                  SafeUint32Mult2Status(a, b, r))

CallSafeUint32Mult3Status ==
    /\ pc = "idle"
    /\ \E a \in U32ChainVals, b \in U32ChainVals, c \in U32ChainVals,
           r \in SlotVals(U32) :
            Ended("SafeUint32Mult3Status", <<>>, <<a, b, c>>, r,
                  SafeUint32Mult3Status(a, b, c, r))

CallSafeUint32Mult4Status ==
    /\ pc = "idle"
    /\ \E a \in U32ChainVals, b \in U32ChainVals, c \in U32ChainVals,
           d \in U32ChainVals, r \in SlotVals(U32) :
            Ended("SafeUint32Mult4Status", <<>>, <<a, b, c, d>>, r,
                  SafeUint32Mult4Status(a, b, c, d, r))

CallSafeUint32Mult2 ==
    /\ pc = "idle"
    /\ \E a \in U32Vals, b \in U32Vals :
            Ended("SafeUint32Mult2", <<>>, <<a, b>>, Zero, SafeUint32Mult2(a, b))

CallSafeUint32Mult3 ==
    /\ pc = "idle"
    /\ \E a \in U32ChainVals, b \in U32ChainVals, c \in U32ChainVals :
            Ended("SafeUint32Mult3", <<>>, <<a, b, c>>, Zero, SafeUint32Mult3(a, b, c))

CallSafeUint32Mult4 ==
    /\ pc = "idle"
    /\ \E a \in U32ChainVals, b \in U32ChainVals, c \in U32ChainVals,
           d \in U32ChainVals :
            Ended("SafeUint32Mult4", <<>>, <<a, b, c, d>>, Zero,
                  SafeUint32Mult4(a, b, c, d))

CallMultiplyLeft ==
    /\ pc = "idle"
    /\ \E a \in U32ChainVals, b \in U32ChainVals, c \in U32ChainVals :
            Ended("MultiplyLeft", <<>>, <<a, b, c>>, Zero, MultiplyLeft(a, b, c))

CallMultiplyRight ==
    /\ pc = "idle"
    /\ \E a \in U32ChainVals, b \in U32ChainVals, c \in U32ChainVals :
            Ended("MultiplyRight", <<>>, <<a, b, c>>, Zero, MultiplyRight(a, b, c))

CallSafeSizetMult ==
    /\ pc = "idle"
    /\ \E a \in SizeTVals, b \in SizeTVals :
            Ended("SafeSizetMult", <<>>, <<a, b>>, Zero, SafeSizetMult(a, b))

CallSafeInt64Mult ==
    /\ pc = "idle"
    /\ \E a \in I64MultVals, b \in I64MultVals :
            Ended("SafeInt64Mult", <<>>, <<a, b>>, Zero, SafeInt64Mult(a, b))

CallSafeUint32DivideUp ==
    /\ pc = "idle"
    /\ \E a \in U32Vals, b \in U32Vals :
            Ended("SafeUint32DivideUp", <<>>, <<a, b>>, Zero, SafeUint32DivideUp(a, b))

CallRoundUpUint32ToMultiple ==
    /\ pc = "idle"
    /\ \E v \in U32Vals, m \in U32Vals, r \in SlotVals(U32) :
            Ended("RoundUpUint32ToMultiple", <<>>, <<v, m>>, r,
                  RoundUpUint32ToMultiple(v, m, r))

CallConvertUint32ToInt32 ==
    /\ pc = "idle"
    /\ \E v \in U32Vals, r \in SlotVals(I32) :
            Ended("ConvertUint32ToInt32", <<>>, <<v>>, r, ConvertUint32ToInt32(v, r))

CallConvertUnsigned ==
    /\ pc = "idle"
    /\ \E TSrc \in UnsignedTypes, TDest \in UnsignedTypes :
            \E src \in UnsignedVals(TSrc), dest \in SlotVals(TDest) :
                Ended("ConvertUnsigned", <<TSrc, TDest>>, <<src>>, dest,
                      ConvertUnsigned(TSrc, TDest, src, dest))

\* The caller has taken the outcome; the next call starts afresh.
Return ==
    /\ pc = "done"
    /\ pc' = "idle"
    /\ fn' = "none"
    /\ targs' = <<>>
    /\ args' = <<>>
    /\ result0' = Zero
    /\ result' = Zero
    /\ outcome' = "none"
    /\ val' = Zero
    /\ evals' = {}

Next ==
    \/ CallSafeInt32AddStatus
    \/ CallSafeInt32Add
    \/ CallSafeInt64Add
    \/ CallSafeUint32AddStatus
    \/ CallSafeUint32Add
    \/ CallSafeInt32SubStatus
    \/ CallSafeInt32Sub
    \/ CallSafeUint32Mult2Status
    \/ CallSafeUint32Mult3Status
    \/ CallSafeUint32Mult4Status
    \/ CallSafeUint32Mult2
    \/ CallSafeUint32Mult3
    \/ CallSafeUint32Mult4
    \/ CallMultiplyLeft
    \/ CallMultiplyRight
    \/ CallSafeSizetMult
    \/ CallSafeInt64Mult
    \/ CallSafeUint32DivideUp
    \/ CallRoundUpUint32ToMultiple
    \/ CallConvertUint32ToInt32
    \/ CallConvertUnsigned
    \/ Return

Spec == Init /\ [][Next]_vars

(***************************************************************************)
(* The properties.  Each is a predicate on the state in which a call has   *)
(* ended, comparing what the call did with the exact integers.             *)
(***************************************************************************)
ResultForms ==
    {"SafeInt32Add", "SafeInt64Add", "SafeUint32Add", "SafeInt32Sub",
     "SafeUint32Mult2", "SafeUint32Mult3", "SafeUint32Mult4", "SafeSizetMult",
     "SafeInt64Mult", "SafeUint32DivideUp"}

StatusForms ==
    {"SafeInt32AddStatus", "SafeUint32AddStatus", "SafeInt32SubStatus",
     "SafeUint32Mult2Status", "SafeUint32Mult3Status", "SafeUint32Mult4Status",
     "RoundUpUint32ToMultiple", "ConvertUint32ToInt32"}

\* The call succeeded with the value v, or failed, in the way of its form.
SucceededWith(v) ==
    \/ fn \in ResultForms /\ outcome = "returned" /\ val = v
    \/ fn \in StatusForms /\ outcome = "true" /\ result = v

Failed ==
    \/ fn \in ResultForms /\ outcome = "raised"
    \/ fn \in StatusForms /\ outcome = "false"

\* Succeeds with the exact value z if z is in T, fails otherwise.
ExactOrFails(T, z) == IF InRange(T, z) THEN SucceededWith(z) ELSE Failed

RECURSIVE ProductFrom(_, _)
ProductFrom(s, i) == IF i > Len(s) THEN One ELSE ZMul(s[i], ProductFrom(s, i + 1))

\* The exact product of all the operands of the call.
ProductOfArgs == ProductFrom(args, 1)

AddForms ==
    {"SafeInt32Add", "SafeInt32AddStatus", "SafeInt64Add", "SafeUint32Add",
     "SafeUint32AddStatus"}

AddType ==
    IF fn \in {"SafeInt32Add", "SafeInt32AddStatus"} THEN I32
    ELSE IF fn = "SafeInt64Add" THEN I64
    ELSE U32

\* C1: a checked addition succeeds if and only if the exact sum of its
\* operands lies in the range of its type, and then returns or stores that
\* sum; otherwise the result form raises and the status form returns false.
C1_AddExactOrFails ==
    pc = "done" /\ fn \in AddForms =>
        ExactOrFails(AddType, ZAdd(args[1], args[2]))

\* An int64 addition of non-zero operands has ended with INT64_MAX.
C1_Witness ==
    /\ pc = "done" /\ fn = "SafeInt64Add"
    /\ args[1] # Zero /\ args[2] # Zero
    /\ outcome = "returned" /\ val = TMax(I64)

ChainForms ==
    {"SafeUint32Mult3", "SafeUint32Mult3Status", "SafeUint32Mult4",
     "SafeUint32Mult4Status"}

\* C2: the 3- and 4-operand SafeUint32Mult succeed if and only if the exact
\* product of all the operands is at most 2^32 - 1, and then return or store
\* that product; they fail only when that product does not fit, a zero
\* operand included.
C2_ChainExactOrFails ==
    pc = "done" /\ fn \in ChainForms => ExactOrFails(U32, ProductOfArgs)

\* C3: SafeInt64Mult returns the exact product of its operands if and only
\* if that product lies in [INT64_MIN, INT64_MAX], and raises otherwise.
C3_Int64MultExactOrFails ==
    pc = "done" /\ fn = "SafeInt64Mult" =>
        ExactOrFails(I64, ZMul(args[1], args[2]))

\* INT64_MIN * -1 has been refused.
C3_Witness ==
    /\ pc = "done" /\ fn = "SafeInt64Mult"
    /\ args = <<TMin(I64), Z(-1)>>
    /\ outcome = "raised"

BinaryMultForms == {"SafeUint32Mult2", "SafeUint32Mult2Status", "SafeSizetMult"}

BinaryMultType == IF fn = "SafeSizetMult" THEN SizeT ELSE U32

\* C4: the binary unsigned multiplication succeeds if and only if the exact
\* product is at most the maximum of its type, and then returns that product;
\* it succeeds with 0 when an operand is 0, and for a # 0 it fails exactly
\* when b > MAX / a.
C4_UnsignedMultExactOrFails ==
    pc = "done" /\ fn \in BinaryMultForms =>
        /\ ExactOrFails(BinaryMultType, ZMul(args[1], args[2]))
        /\ args[1] = Zero \/ args[2] = Zero => SucceededWith(Zero)
        /\ args[1] # Zero =>
              (Failed <=> ZLt(ZDivT(TMax(BinaryMultType), args[1]), args[2]))

\* 65535 * 65537 or 65537 * 65535, which is 2^32 - 1, has been returned.
C4_Witness ==
    /\ pc = "done" /\ fn = "SafeUint32Mult2"
    /\ args[1] # One /\ args[2] # One
    /\ outcome = "returned" /\ val = TMax(U32)

\* C5: a status form that returns false leaves *result as it was on entry,
\* and a status form ends by returning true or false, never by raising.
C5_FalseLeavesResult ==
    pc = "done" /\ fn \in StatusForms =>
        /\ outcome \in {"true", "false"}
        /\ outcome = "false" => result = result0

\* A status form whose inner call raised has returned false, the slot kept.
C5_Witness ==
    /\ pc = "done" /\ fn = "SafeUint32Mult4Status"
    /\ Zero \notin {args[1], args[2], args[3], args[4]}
    /\ outcome = "false" /\ result0 = Z(7) /\ result = Z(7)

\* The smallest multiple of m that is at least v, for m > 0.
SmallestMultiple(v, m) == ZMul(ZDivT(ZAdd(v, ZSub(m, One)), m), m)

\* C6: RoundUpUint32ToMultiple returns true if and only if multiple_of > 0
\* and the smallest multiple of multiple_of that is at least val is at most
\* 2^32 - 1, and then *result is that multiple; otherwise it returns false.
C6_RoundUpSmallestMultiple ==
    pc = "done" /\ fn = "RoundUpUint32ToMultiple" =>
        IF args[2] = Zero THEN Failed
        ELSE /\ ExactOrFails(U32, SmallestMultiple(args[1], args[2]))
             /\ outcome = "true" =>
                   /\ ZLe(args[1], result)
                   /\ ZLt(result, ZAdd(args[1], args[2]))
                   /\ ZRemT(result, args[2]) = Zero

\* A value that is not a multiple has been rounded up.
C6_Witness ==
    /\ pc = "done" /\ fn = "RoundUpUint32ToMultiple"
    /\ outcome = "true" /\ result # args[1]

\* C7: SafeUint32DivideUp(a, b) raises when b = 0, returns 0 when a = 0 and
\* b > 0, and for b > 0 returns r in uint32 range with r * b >= a and, when
\* r > 0, (r - 1) * b < a.
C7_DivideUpCeiling ==
    pc = "done" /\ fn = "SafeUint32DivideUp" =>
        IF args[2] = Zero THEN outcome = "raised"
        ELSE /\ outcome = "returned"
             /\ args[1] = Zero => val = Zero
             /\ InRange(U32, val)
             /\ ZLe(args[1], ZMul(val, args[2]))
             /\ ZLt(Zero, val) => ZLt(ZMul(ZSub(val, One), args[2]), args[1])

\* A division whose arg1 + arg2 exceeds 2^32 - 1 has returned.
C7_Witness ==
    /\ pc = "done" /\ fn = "SafeUint32DivideUp"
    /\ ZLt(TMax(U32), ZAdd(args[1], args[2]))
    /\ args[2] # One /\ outcome = "returned" /\ ZLt(One, val)

\* C8: ConvertUnsigned<TSrc, TDest> and ConvertUint32ToInt32 succeed if and
\* only if the source value is at most the maximum of the destination type;
\* then the destination, converted back to the source type, is the source
\* value; on failure the destination keeps its entry value.
C8_ConvertRoundTrip ==
    /\ pc = "done" /\ fn = "ConvertUnsigned" =>
          IF ZLe(args[1], TMax(targs[2]))
          THEN outcome = "returned" /\ Wrap(targs[1], result) = args[1]
          ELSE outcome = "raised" /\ result = result0
    /\ pc = "done" /\ fn = "ConvertUint32ToInt32" =>
          IF ZLe(args[1], TMax(I32))
          THEN outcome = "true" /\ Wrap(U32, result) = args[1]
          ELSE outcome = "false" /\ result = result0

\* A narrowing conversion of a value that does not fit has raised.
C8_Witness ==
    /\ pc = "done" /\ fn = "ConvertUnsigned"
    /\ targs[1].bits > targs[2].bits
    /\ outcome = "raised" /\ result = result0 /\ result0 # Zero

Compositions == {"MultiplyLeft", "MultiplyRight"}

\* The composition the call did not make, on the same operands.
OtherWay ==
    IF fn = "MultiplyLeft" THEN Settle(MultiplyRight(args[1], args[2], args[3]))
    ELSE Settle(MultiplyLeft(args[1], args[2], args[3]))

\* C9: Multiply(Multiply(a, b), c) and Multiply(a, Multiply(b, c)) both
\* succeed or both fail, and when both succeed they give the same result.
C9_SameOutcome ==
    pc = "done" /\ fn \in Compositions =>
        /\ (outcome = "returned") <=> (OtherWay.outcome = "returned")
        /\ outcome = "returned" /\ OtherWay.outcome = "returned" =>
              val = OtherWay.val

\* The product the composition fn makes first does not fit in a uint32 while
\* the operand it multiplies by last is 0.
LostZero(f) ==
    IF f = "MultiplyLeft"
    THEN args[3] = Zero /\ ~InRange(U32, ZMul(args[1], args[2]))
    ELSE args[1] = Zero /\ ~InRange(U32, ZMul(args[2], args[3]))

\* C9, amended: the two compositions both succeed or both fail except when
\* c = 0 and a * b > 2^32 - 1 (only the right-nested one succeeds) or a = 0
\* and b * c > 2^32 - 1 (only the left-nested one succeeds); when both
\* succeed they give the same result.
C9_SameOutcomeButLostZero ==
    pc = "done" /\ fn \in Compositions =>
        /\ outcome \in {"returned", "raised"}
        /\ OtherWay.outcome \in {"returned", "raised"}
        /\ outcome = OtherWay.outcome <=>
              ~LostZero("MultiplyLeft") /\ ~LostZero("MultiplyRight")
        /\ LostZero(fn) => outcome = "raised"
        /\ outcome = "returned" /\ OtherWay.outcome = "returned" =>
              val = OtherWay.val

\* Non-zero operands whose product is 2^32 - 1 have been multiplied, and the
\* other composition succeeds too.
C9_Witness ==
    /\ pc = "done" /\ fn = "MultiplyRight"
    /\ args[1] # One /\ args[3] # One
    /\ outcome = "returned" /\ val = TMax(U32)
    /\ OtherWay.outcome = "returned"

\* INT64_MIN / -1, the one quotient of int64 operands that is not an int64.
MinByMinusOne(e) ==
    e.op \in DivOps /\ e.t = I64 /\ e.x = TMin(I64) /\ e.y = Z(-1)

\* C10: every arithmetic sub-expression a call evaluates has an exact value
\* in the range of its operand type; no division or modulo is evaluated with
\* a zero divisor, and INT64_MIN / -1 is never evaluated.
C10_EvaluationsInRange ==
    pc = "done" =>
        /\ outcome # "undefined"
        /\ \A e \in evals :
              /\ ~ZeroDivisor(e)
              /\ ~MinByMinusOne(e)
              /\ InRange(e.t, Exact(e))

\* SafeInt64Mult(-1, INT64_MIN) has divided by -1.
C10_Witness ==
    /\ pc = "done" /\ fn = "SafeInt64Mult"
    /\ args = <<Z(-1), TMin(I64)>>
    /\ \E e \in evals : e.op = "/" /\ e.y = Z(-1)

=============================================================================
